---- MODULE Spec2Model ----
(***************************************************************************)
(* NlpEngineProvider (guardian_analyzer/nlp_engine/nlp_engine_provider.py) *)
(* as a state machine: provider construction (__init__), configuration    *)
(* reading (_read_nlp_conf) and the steps of create_engine().              *)
(*                                                                         *)
(* Python values are modelled by records of one shape each, so that any    *)
(* two of them can be compared:                                            *)
(*   - a configuration value is None, a mapping (dict) or "unset" (the     *)
(*     attribute self.nlp_configuration was never assigned);               *)
(*   - a mapping carries the set of keys it has; the fields of keys it     *)
(*     does not have hold a fixed filler;                                  *)
(*   - an exception carries its Python type, its message, the engine name  *)
(*     the message quotes and the place that raised it.                    *)
(* External collaborators (the engine classes, NerModelConfiguration,      *)
(* the file system and the YAML parser) are modelled by their outcomes.    *)
(***************************************************************************)
EXTENDS Naturals, Sequences, FiniteSets, TLC

VARIABLES
    pc,                 \* position of the provider / of the current create_engine() call
    in_nlp_engines,     \* argument nlp_engines of __init__
    in_conf_file,       \* argument conf_file of __init__
    in_nlp_configuration, \* argument nlp_configuration of __init__
    is_available,       \* the class-level is_available flags read at line 45
                        \* (FALSE for a class that is not a candidate)
    fs,                 \* the file system's answer for the path in effect
    nlp_engines,        \* self.nlp_engines: the registry, engine name -> engine class
    nlp_configuration,  \* self.nlp_configuration
    conf_read,          \* whether _read_nlp_conf was called
    log,                \* steps executed by the current create_engine() call
    raised,             \* the exception first raised inside the current operation
    err,                \* the exception that reached the caller
    locals,             \* create_engine's locals: engine class, models, NER configuration
    ctor_args,          \* arguments the engine constructor was called with
    engine              \* the engine handle returned to the caller

vars == <<pc, in_nlp_engines, in_conf_file, in_nlp_configuration, is_available, fs,
          nlp_engines, nlp_configuration, conf_read, log, raised, err,
          locals, ctor_args, engine>>

----------------------------------------------------------------------------
(* Bounds *)

\* longest candidate tuple passed as nlp_engines
MaxEngines == 2
\* longest models list of a configuration
MaxModels == 1

----------------------------------------------------------------------------
(* Engine classes *)

DefaultEngines == <<"SpacyNlpEngine", "StanzaNlpEngine", "TransformersNlpEngine">>

\* A caller-supplied engine class that reuses the name "spacy".
EngineClasses == {"SpacyNlpEngine", "StanzaNlpEngine", "TransformersNlpEngine",
                  "CustomSpacyEngine"}

engine_name(cls) ==
    CASE cls = "SpacyNlpEngine" -> "spacy"
      [] cls = "StanzaNlpEngine" -> "stanza"
      [] cls = "TransformersNlpEngine" -> "transformers"
      [] cls = "CustomSpacyEngine" -> "spacy"

NoClass == "NoClass"

SeqsUpTo(S, n) == UNION {[1..k -> S] : k \in 0..n}

\* nlp_engines: Optional[Tuple]
NoneEngines == [kind |-> "None", val |-> <<>>]
TupleOf(s) == [kind |-> "tuple", val |-> s]
EngineInputs ==
    {NoneEngines}
      \cup {TupleOf(s) : s \in SeqsUpTo({"SpacyNlpEngine", "StanzaNlpEngine",
                                         "CustomSpacyEngine"}, MaxEngines)}

----------------------------------------------------------------------------
(* Configuration values *)

Keys == {"nlp_engine_name", "models", "ner_model_configuration"}

DefaultModel == [lang_code |-> "en", model_name |-> "en_core_web_lg"]
ModelSpecs == {DefaultModel}

EmptyMapping == "{}"
RawNer == "{labels_to_ignore: [O]}"
NerValues == {EmptyMapping, RawNer}
EngineNameValues == {"", "spacy", "stanza"}

\* A mapping with the keys ks; fields of missing keys hold the filler.
Dict(ks, name, models, ner) ==
    [kind |-> "dict", keys |-> ks,
     nlp_engine_name |-> IF "nlp_engine_name" \in ks THEN name ELSE "",
     models |-> IF "models" \in ks THEN models ELSE <<>>,
     ner_model_configuration |->
        IF "ner_model_configuration" \in ks THEN ner ELSE EmptyMapping]

EmptyDict == Dict({}, "", <<>>, EmptyMapping)
NoneValue == [EmptyDict EXCEPT !.kind = "None"]
Unset == [EmptyDict EXCEPT !.kind = "unset"]

Dicts ==
    {Dict(ks, n, m, r) : ks \in SUBSET Keys, n \in EngineNameValues,
                         m \in SeqsUpTo(ModelSpecs, MaxModels), r \in NerValues}

ConfigInputs == {NoneValue} \cup Dicts

\* What yaml.safe_load can return for an existing file: None for an empty
\* document, or a mapping.
FileContents ==
    {NoneValue, EmptyDict, Dict(Keys, "stanza", <<DefaultModel>>, RawNer)}
\* Path("") is the current directory: it exists and cannot be opened as a file.
Directory == [EmptyDict EXCEPT !.kind = "directory"]

\* conf_file: Optional[Union[Path, str]]
NonePath == "<None>"
ConfFileInputs == {NonePath, "", "conf.yaml"}

\* Python truthiness
TruthyDict(c) == c.kind = "dict" /\ c.keys # {}
TruthyPath(p) == p # NonePath /\ p # ""

\* dict.get(key) is truthy
TruthyGet(c, k) ==
    /\ k \in c.keys
    /\ CASE k = "nlp_engine_name" -> c.nlp_engine_name # ""
         [] k = "models" -> c.models # <<>>
         [] k = "ner_model_configuration" -> c.ner_model_configuration # EmptyMapping

----------------------------------------------------------------------------
(* Exceptions *)

NoName == "<none>"
NoError == [exc |-> "none", msg |-> "", names |-> NoName, origin |-> "none"]

MsgConflict == "Either conf_file or nlp_configuration should be provided, not both."
MsgIllegal == "Illegal nlp configuration."
MsgNotAvailable == "NLP engine is not available. Make sure you have all required packages installed"
MsgWrong == "Wrong NLP engine configuration"

ValueError(m, n) == [exc |-> "ValueError", msg |-> m, names |-> n, origin |-> "provider"]
\* raised by the interpreter while the provider's own code runs
AttributeError == [exc |-> "AttributeError", msg |-> "nlp_configuration",
                   names |-> NoName, origin |-> "provider"]
IsADirectoryError == [exc |-> "IsADirectoryError", msg |-> "", names |-> NoName,
                      origin |-> "open"]
TypeError == [exc |-> "TypeError", msg |-> "argument of type 'NoneType' is not iterable",
              names |-> NoName, origin |-> "provider"]
KeyErrorAt(where) == [exc |-> "KeyError", msg |-> "", names |-> NoName, origin |-> where]
\* raised by an external collaborator
External(kind, where) == [exc |-> kind, msg |-> "", names |-> NoName, origin |-> where]

\* outcomes of a call into an external collaborator
Outcomes == {"ok", "KeyError", "OSError"}

----------------------------------------------------------------------------
(* __init__ *)

\* {engine.engine_name: engine for engine in nlp_engines if engine.is_available}
RECURSIVE registry(_, _)
registry(engs, avail) ==
    IF engs = <<>> THEN [n \in {} |-> NoClass]
    ELSE LET prev == registry(SubSeq(engs, 1, Len(engs) - 1), avail)
             e == engs[Len(engs)]
         IN IF avail[e]
            THEN [n \in DOMAIN prev \cup {engine_name(e)} |->
                    IF n = engine_name(e) THEN e ELSE prev[n]]
            ELSE prev

\* if not nlp_engines: nlp_engines = (Spacy, Stanza, Transformers)
candidates(arg) ==
    IF arg.kind = "None" \/ arg.val = <<>> THEN DefaultEngines ELSE arg.val

_get_full_conf_path == "conf/default.yaml"

DefaultConfiguration ==
    Dict({"nlp_engine_name", "models"}, "spacy", <<DefaultModel>>, EmptyMapping)

\* The path whose file the configuration comes from when no inline
\* configuration is adopted: conf_file, or the conventional default path.
PathInEffect(conf_file) ==
    IF conf_file = NonePath THEN _get_full_conf_path ELSE conf_file

FsAnswer(path, exists, content) ==
    [path |-> path, exists |-> exists, content |-> IF exists THEN content ELSE NoneValue]
FsAnswers(path) ==
    IF path = "" THEN {FsAnswer(path, TRUE, Directory)}
    ELSE {FsAnswer(path, FALSE, NoneValue)}
           \cup {FsAnswer(path, TRUE, c) : c \in FileContents}
NoFs == FsAnswer(NonePath, FALSE, NoneValue)

\* _read_nlp_conf: the configuration returned, or the exception raised
Returned(c) == [ok |-> TRUE, val |-> c, exc |-> NoError]
Raised(e) == [ok |-> FALSE, val |-> Unset, exc |-> e]

\* _read_nlp_conf without the fallback: a missing file is an error
_read_nlp_conf_no_fallback(exists, content) ==
    IF ~exists
    THEN Raised([exc |-> "FileNotFoundError", msg |-> "", names |-> NoName,
                 origin |-> "open"])
    ELSE IF content.kind = "directory" THEN Raised(IsADirectoryError)
    ELSE IF content.kind = "None" THEN Raised(TypeError) ELSE Returned(content)

_read_nlp_conf(exists, content) ==
    IF exists /\ content.kind = "directory" THEN Raised(IsADirectoryError)
    ELSE LET conf == IF ~exists THEN DefaultConfiguration ELSE content
         IN  IF conf.kind = "None" THEN Raised(TypeError) ELSE Returned(conf)

\* NlpEngineProvider.__init__(nlp_engines, conf_file, nlp_configuration) with
\* the class flags avail and the file system answering ans: the new values of
\* self and the exception raised, if any.
init_result(engs, conf_file, conf, avail, ans) ==
    LET reg == registry(candidates(engs), avail)
        adopted == IF TruthyDict(conf) THEN conf ELSE Unset
        rd == _read_nlp_conf(ans.exists, ans.content)
    IN  IF TruthyPath(conf_file) /\ TruthyDict(conf)
        THEN [nlp_engines |-> reg, nlp_configuration |-> Unset,
              conf_read |-> FALSE, exc |-> ValueError(MsgConflict, NoName)]
        ELSE IF TruthyPath(conf_file)
                  \/ (conf_file = NonePath /\ conf.kind = "None")
        THEN [nlp_engines |-> reg,
              nlp_configuration |-> IF rd.ok THEN rd.val ELSE adopted,
              conf_read |-> TRUE, exc |-> rd.exc]
        ELSE [nlp_engines |-> reg, nlp_configuration |-> adopted,
              conf_read |-> FALSE, exc |-> NoError]

\* the flags of the candidate classes, in every combination
Flags(engs) ==
    LET cs == {candidates(engs)[i] : i \in DOMAIN candidates(engs)}
    IN  {[c \in EngineClasses |-> c \in on] : on \in SUBSET cs}

\* ner is the Python type of the NER configuration value: "None", "dict" (the
\* raw sub-object) or "NerModelConfiguration" (the parsed entity); nerval is
\* the sub-object it was taken or parsed from.
NoLocals == [cls |-> NoClass, models |-> <<>>, ner |-> "None", nerval |-> EmptyMapping]
NoCall == [called |-> 0, cls |-> NoClass, models |-> <<>>, ner |-> "None",
           nerval |-> EmptyMapping]
NoEngine == [returned |-> FALSE, cls |-> NoClass, engine_name |-> NoName]

__init__ ==
    /\ pc = "Uninitialized"
    /\ \E engs \in EngineInputs, conf_file \in ConfFileInputs, conf \in ConfigInputs :
       \E avail \in Flags(engs), ans \in FsAnswers(PathInEffect(conf_file)) :
          LET r == init_result(engs, conf_file, conf, avail, ans)
          IN  /\ in_nlp_engines' = engs
              /\ in_conf_file' = conf_file
              /\ in_nlp_configuration' = conf
              /\ is_available' = avail
              /\ fs' = ans
              /\ nlp_engines' = r.nlp_engines
              /\ nlp_configuration' = r.nlp_configuration
              /\ conf_read' = r.conf_read
              /\ raised' = r.exc
              /\ err' = r.exc
              /\ pc' = IF r.exc = NoError THEN "Ready" ELSE "InitFailed"
    /\ UNCHANGED <<log, locals, ctor_args, engine>>

----------------------------------------------------------------------------
(* create_engine *)

Step(name, ok) == [step |-> name, ok |-> ok]

\* the try block without its handler: the exception leaves as raised
except_KeyError_reraise(e) == e

\* except KeyError: raise ValueError("Wrong NLP engine configuration")
except_KeyError(e) ==
    IF e.exc = "KeyError" THEN ValueError(MsgWrong, NoName) ELSE e

\* a step of the call fails with exception e, raised outside the try block
Fail(name, e) ==
    /\ pc' = "Failed"
    /\ log' = Append(log, Step(name, FALSE))
    /\ raised' = e
    /\ err' = e

\* a step of the call fails with exception e, raised inside the try block
FailInTry(name, e) ==
    /\ pc' = "Failed"
    /\ log' = Append(log, Step(name, FALSE))
    /\ raised' = e
    /\ err' = except_KeyError(e)

Pass(name, next) ==
    /\ pc' = next
    /\ log' = Append(log, Step(name, TRUE))
    /\ UNCHANGED <<raised, err>>

provider == <<in_nlp_engines, in_conf_file, in_nlp_configuration, is_available, fs,
              nlp_engines, nlp_configuration, conf_read>>

\* lines 69-78: entry of a call and validation of the configuration
create_engine_validate ==
    /\ pc \in {"Ready", "Returned", "Failed"}
    /\ IF nlp_configuration.kind = "unset"
       THEN /\ pc' = "Failed"
            /\ log' = <<Step("validate", FALSE)>>
            /\ raised' = AttributeError
            /\ err' = AttributeError
       ELSE IF \/ ~TruthyDict(nlp_configuration)
               \/ ~TruthyGet(nlp_configuration, "models")
               \/ ~TruthyGet(nlp_configuration, "nlp_engine_name")
       THEN /\ pc' = "Failed"
            /\ log' = <<Step("validate", FALSE)>>
            /\ raised' = ValueError(MsgIllegal, NoName)
            /\ err' = ValueError(MsgIllegal, NoName)
       ELSE /\ pc' = "Validated"
            /\ log' = <<Step("validate", TRUE)>>
            /\ raised' = NoError
            /\ err' = NoError
    /\ locals' = NoLocals
    /\ ctor_args' = NoCall
    /\ engine' = NoEngine
    /\ UNCHANGED provider

\* create_engine without the check of lines 80-84
create_engine_lookup_unchecked ==
    /\ pc = "Validated"
    /\ Pass("lookup", "Resolved")
    /\ UNCHANGED <<locals, ctor_args, engine>>
    /\ UNCHANGED provider

\* lines 79-84: registry lookup
create_engine_lookup ==
    /\ pc = "Validated"
    /\ LET nlp_engine_name == nlp_configuration.nlp_engine_name
       IN  IF nlp_engine_name \notin DOMAIN nlp_engines
           THEN Fail("lookup", ValueError(MsgNotAvailable, nlp_engine_name))
           ELSE Pass("lookup", "Resolved")
    /\ UNCHANGED <<locals, ctor_args, engine>>
    /\ UNCHANGED provider

\* lines 86-95: the locals of the try block; NerModelConfiguration.from_dict
\* is called only when the sub-object is truthy
create_engine_assemble ==
    /\ pc = "Resolved"
    /\ LET c == nlp_configuration
           nlp_engine_name == c.nlp_engine_name
       IN  IF nlp_engine_name \notin DOMAIN nlp_engines \/ "models" \notin c.keys
           THEN /\ FailInTry("assemble", KeyErrorAt("provider"))
                /\ UNCHANGED locals
           ELSE LET cls == nlp_engines[nlp_engine_name]
                    raw == IF "ner_model_configuration" \in c.keys
                           THEN [cls |-> cls, models |-> c.models, ner |-> "dict",
                                 nerval |-> c.ner_model_configuration]
                           ELSE [cls |-> cls, models |-> c.models, ner |-> "None",
                                 nerval |-> EmptyMapping]
                IN  IF TruthyGet(c, "ner_model_configuration")
                    THEN \E o \in Outcomes :
                            IF o = "ok"
                            THEN /\ Pass("assemble", "Assembled")
                                 /\ locals' = [raw EXCEPT !.ner = "NerModelConfiguration"]
                            ELSE /\ FailInTry("assemble", External(o, "from_dict"))
                                 /\ locals' = raw
                    ELSE /\ Pass("assemble", "Assembled")
                         /\ locals' = raw
    /\ UNCHANGED <<ctor_args, engine>>
    /\ UNCHANGED provider

\* lines 97-99: engine = nlp_engine_class(models=..., ner_model_configuration=...)
create_engine_construct ==
    /\ pc = "Assembled"
    /\ ctor_args' = [called |-> ctor_args.called + 1, cls |-> locals.cls,
                     models |-> locals.models, ner |-> locals.ner,
                     nerval |-> locals.nerval]
    /\ \E o \in Outcomes :
          IF o = "ok" THEN Pass("construct", "EngineConstructed")
          ELSE FailInTry("construct", External(o, "constructor"))
    /\ UNCHANGED <<locals, engine>>
    /\ UNCHANGED provider

\* engine.load() tried a second time after a first failure
create_engine_load_retry ==
    /\ pc = "EngineConstructed"
    /\ \E o \in Outcomes :
          IF o = "ok" THEN Pass("load", "EngineLoaded")
          ELSE IF log[Len(log)] # Step("load", FALSE)
          THEN /\ pc' = pc
               /\ log' = Append(log, Step("load", FALSE))
               /\ UNCHANGED <<raised, err>>
          ELSE FailInTry("load", External(o, "load"))
    /\ UNCHANGED <<locals, ctor_args, engine>>
    /\ UNCHANGED provider

\* line 100: engine.load()
create_engine_load ==
    /\ pc = "EngineConstructed"
    /\ \E o \in Outcomes :
          IF o = "ok" THEN Pass("load", "EngineLoaded")
          ELSE FailInTry("load", External(o, "load"))
    /\ UNCHANGED <<locals, ctor_args, engine>>
    /\ UNCHANGED provider

\* lines 101-105: return engine
create_engine_return ==
    /\ pc = "EngineLoaded"
    /\ Pass("return", "Returned")
    /\ engine' = [returned |-> TRUE, cls |-> ctor_args.cls,
                  engine_name |-> engine_name(ctor_args.cls)]
    /\ UNCHANGED <<locals, ctor_args>>
    /\ UNCHANGED provider

create_engine ==
    \/ create_engine_validate
    \/ create_engine_lookup
    \/ create_engine_assemble
    \/ create_engine_construct
    \/ create_engine_load
    \/ create_engine_return

Next == __init__ \/ create_engine

Init ==
    /\ pc = "Uninitialized"
    /\ is_available = [c \in EngineClasses |-> FALSE]
    /\ fs = NoFs
    /\ in_nlp_engines = NoneEngines
    /\ in_conf_file = NonePath
    /\ in_nlp_configuration = NoneValue
    /\ nlp_engines = [n \in {} |-> NoClass]
    /\ nlp_configuration = Unset
    /\ conf_read = FALSE
    /\ log = <<>>
    /\ raised = NoError
    /\ err = NoError
    /\ locals = NoLocals
    /\ ctor_args = NoCall
    /\ engine = NoEngine

Spec == Init /\ [][Next]_vars

----------------------------------------------------------------------------
(* Properties *)

Constructed == pc \notin {"Uninitialized", "InitFailed"}
InCall == log # <<>>
Steps(name) == {i \in DOMAIN log : log[i].step = name}
LastStep == log[Len(log)]

\* the named errors of the provider
ConflictingConfigurationSources(e) == e.exc = "ValueError" /\ e.msg = MsgConflict
InvalidConfiguration(e) == e.exc = "ValueError" /\ e.msg \in {MsgIllegal, MsgWrong}
UnknownEngine(e, name) ==
    e.exc = "ValueError" /\ e.msg = MsgNotAvailable /\ e.names = name

\* the configuration is absent, or its models list is missing or empty, or
\* its engine name is missing or empty
Unusable(c) ==
    \/ c.kind # "dict"
    \/ "models" \notin c.keys \/ c.models = <<>>
    \/ "nlp_engine_name" \notin c.keys \/ c.nlp_engine_name = ""

\* C1: whenever both an inline configuration and a file path are supplied
\* (whatever their values), construction fails with
\* ConflictingConfigurationSources, adopts no configuration and reads no file.
C1_BothSourcesAlwaysConflict ==
    (pc # "Uninitialized" /\ in_nlp_configuration.kind # "None"
       /\ in_conf_file # NonePath)
    => /\ pc = "InitFailed"
       /\ ConflictingConfigurationSources(err)
       /\ nlp_configuration = Unset
       /\ ~conf_read

\* C2: construction either leaves the provider holding one resolved
\* configuration, or fails with a named error before any engine is built;
\* no constructed provider is without a configuration.
C2_OneConfigurationOrNamedError ==
    /\ Constructed => nlp_configuration.kind = "dict"
    /\ pc = "InitFailed"
         => ConflictingConfigurationSources(err) /\ ctor_args.called = 0

\* C3: on a constructed provider whose configuration is absent, or lacks a
\* non-empty models list or a non-empty engine name, create_engine() fails
\* with InvalidConfiguration and nothing else, and neither the constructor
\* nor load is invoked.
C3_UnusableConfigurationIsInvalid ==
    (InCall /\ Unusable(nlp_configuration))
    => /\ pc = "Failed"
       /\ InvalidConfiguration(err)
       /\ ctor_args.called = 0
       /\ Steps("construct") = {} /\ Steps("load") = {}

\* C4: with a non-empty models list and a non-empty engine name that is not a
\* key of the registry, create_engine() fails with UnknownEngine naming that
\* engine, and no constructor and no load is invoked.
C4_UnknownEngineFails ==
    (InCall /\ ~Unusable(nlp_configuration)
       /\ nlp_configuration.nlp_engine_name \notin DOMAIN nlp_engines)
    => /\ ctor_args.called = 0
       /\ Steps("construct") = {} /\ Steps("load") = {}
       /\ pc \in {"Validated", "Failed"}
       /\ pc = "Failed"
            => /\ UnknownEngine(err, nlp_configuration.nlp_engine_name)
               /\ log = <<Step("validate", TRUE), Step("lookup", FALSE)>>

C4_Witness ==
    /\ pc = "Failed"
    /\ UnknownEngine(err, "stanza")
    /\ nlp_configuration.nlp_engine_name = "stanza"
    /\ DOMAIN nlp_engines = {}

\* C5: for every candidate tuple passed (the empty one included) the registry
\* holds exactly the available candidates of that tuple, keyed by engine
\* name, and nothing else.
C5_RegistryIsAvailableSubsetOfSupplied ==
    (pc # "Uninitialized" /\ in_nlp_engines.kind = "tuple")
    => LET supplied == in_nlp_engines.val
           on == {i \in DOMAIN supplied : is_available[supplied[i]]}
       IN  /\ DOMAIN nlp_engines = {engine_name(supplied[i]) : i \in on}
           /\ \A n \in DOMAIN nlp_engines :
                 \E i \in on : engine_name(supplied[i]) = n
                                  /\ nlp_engines[n] = supplied[i]

\* C6: a failure of the engine's load phase reaches the caller unchanged,
\* whatever its kind, and load is not tried again.
C6_LoadFailureUnchanged ==
    (pc = "Failed" /\ LastStep = Step("load", FALSE))
    => err = raised /\ Cardinality(Steps("load")) = 1

\* C7: with no inline configuration and a path in effect that does not exist,
\* construction succeeds and the configuration is the hard-coded default:
\* engine "spacy" and exactly one model, of language "en".
C7_MissingFileGivesDefault ==
    (pc # "Uninitialized" /\ in_nlp_configuration.kind = "None" /\ ~fs.exists)
    => /\ Constructed
       /\ err = NoError \/ InCall
       /\ fs.path = PathInEffect(in_conf_file)
       /\ nlp_configuration.kind = "dict"
       /\ nlp_configuration.keys = {"nlp_engine_name", "models"}
       /\ nlp_configuration.nlp_engine_name = "spacy"
       /\ Len(nlp_configuration.models) = 1
       /\ nlp_configuration.models[1].lang_code = "en"

C7_Witness ==
    /\ pc = "Ready"
    /\ in_nlp_configuration.kind = "None"
    /\ in_conf_file = "conf.yaml"
    /\ ~fs.exists
    /\ conf_read
    /\ nlp_configuration = DefaultConfiguration

\* C8: a KeyError raised in the assembly of create_engine(), after validation
\* and registry lookup passed, reaches the caller as InvalidConfiguration; no
\* KeyError ever leaves create_engine().
C8_LookupFailureNormalized ==
    /\ err.exc # "KeyError"
    /\ (pc = "Failed" /\ raised.exc = "KeyError")
         => /\ InvalidConfiguration(err)
            /\ {Step("validate", TRUE), Step("lookup", TRUE)}
                  \subseteq {log[i] : i \in DOMAIN log}

C8_Witness ==
    /\ pc = "Failed"
    /\ raised = KeyErrorAt("constructor")
    /\ err = ValueError(MsgWrong, NoName)

\* C9: a call is one linear attempt: validate, lookup, assembly, construct,
\* load, return in this order, each at most once; nothing runs after a failed
\* step; an engine is returned only after load succeeded.
Order == <<"validate", "lookup", "assemble", "construct", "load", "return">>

C9_SingleLinearAttempt ==
    /\ Len(log) <= Len(Order)
    /\ \A i \in DOMAIN log : log[i].step = Order[i]
    /\ \A i \in DOMAIN log : ~log[i].ok => i = Len(log)
    /\ ctor_args.called = Cardinality(Steps("construct"))
    /\ pc = "Failed" <=> (InCall /\ ~LastStep.ok)
    /\ engine.returned
         <=> (pc = "Returned" /\ Step("load", TRUE) \in {log[i] : i \in DOMAIN log})
    /\ pc = "Returned" => LastStep = Step("return", TRUE)

C9_Witness ==
    /\ pc = "Returned"
    /\ engine.returned
    /\ engine.engine_name = nlp_configuration.nlp_engine_name
    /\ Len(log) = Len(Order)

\* C10: the constructor receives the configuration's model list unchanged;
\* it receives the parsed NER entity whenever the configuration has the
\* sub-object (whatever its value), and an absent value when it has none.
C10_ConstructorArguments ==
    ctor_args.called > 0
    => /\ ctor_args.models = nlp_configuration.models
       /\ ctor_args.cls = nlp_engines[nlp_configuration.nlp_engine_name]
       /\ IF "ner_model_configuration" \in nlp_configuration.keys
          THEN /\ ctor_args.ner = "NerModelConfiguration"
               /\ ctor_args.nerval = nlp_configuration.ner_model_configuration
          ELSE ctor_args.ner = "None"

====
